---- MODULE Spec2Model ----
(***************************************************************************)
(* A model of convert.py: the batch conversion of CLOVA OCR results into   *)
(* cropped images with a label file and LabelMe annotation documents.      *)
(*                                                                         *)
(* A file name is a sequence of one-character strings, a polygon a         *)
(* sequence of points [x |-> .., y |-> ..], a recognition response a       *)
(* record [status, fields].  One write call on the label file is one line. *)
(***************************************************************************)
EXTENDS Integers, Sequences, FiniteSets, TLC

\* ------------------------------------------------------------------ bounds
MaxFiles == 3      \* entries in the input directory
MaxFields == 3     \* fields returned by the recognition service in one run
MaxPts == 3        \* vertices of a polygon handed to get_bbox (SpecBBox)
MaxCoord == 2      \* largest coordinate of such a vertex (SpecBBox)

\* ------------------------------------------------------- program constants
DefaultMinImageSize == 16

\* ------------------------------------------------------------- characters
DigitChars == <<"0", "1", "2", "3", "4", "5", "6", "7", "8", "9">>

\* The code points of the characters of the file names (Python compares
\* strings by code point).
CodePoints ==
  ("." :> 46) @@ ("_" :> 95) @@ ("0" :> 48) @@ ("1" :> 49) @@ ("2" :> 50)
    @@ ("3" :> 51) @@ ("4" :> 52) @@ ("5" :> 53) @@ ("6" :> 54) @@ ("7" :> 55)
    @@ ("8" :> 56) @@ ("9" :> 57) @@ ("a" :> 97) @@ ("b" :> 98) @@ ("h" :> 104)
    @@ ("p" :> 112)

Code(c) == CodePoints[c]

Range(s) == {s[i] : i \in 1..Len(s)}

SeqsUpTo(S, n) == UNION {[1..k -> S] : k \in 0..n}

\* str < str
RECURSIVE LexLess(_, _)
LexLess(s, t) ==
  IF s = <<>> THEN t # <<>>
  ELSE IF t = <<>> THEN FALSE
  ELSE IF Code(Head(s)) < Code(Head(t)) THEN TRUE
  ELSE IF Code(Head(s)) > Code(Head(t)) THEN FALSE
  ELSE LexLess(Tail(s), Tail(t))

\* list.sort() on a list of strings
RECURSIVE InsertSorted(_, _)
InsertSorted(x, s) ==
  IF s = <<>> THEN <<x>>
  ELSE IF LexLess(x, Head(s)) THEN <<x>> \o s
  ELSE <<Head(s)>> \o InsertSorted(x, Tail(s))

RECURSIVE SortList(_)
SortList(s) ==
  IF s = <<>> THEN <<>> ELSE InsertSorted(Head(s), SortList(Tail(s)))

\* str.split('.')
RECURSIVE SplitDot(_)
SplitDot(s) ==
  IF s = <<>> THEN << <<>> >>
  ELSE IF Head(s) = "." THEN << <<>> >> \o SplitDot(Tail(s))
  ELSE LET rest == SplitDot(Tail(s))
       IN  << <<Head(s)>> \o Head(rest) >> \o Tail(rest)

\* str(n) for n >= 0
RECURSIVE DecimalDigits(_)
DecimalDigits(n) ==
  IF n < 10 THEN <<DigitChars[n + 1]>>
  ELSE DecimalDigits(n \div 10) \o <<DigitChars[(n % 10) + 1]>>

\* f"{jj:03d}"
RECURSIVE ZeroPad(_, _)
ZeroPad(s, width) == IF Len(s) >= width THEN s ELSE ZeroPad(<<"0">> \o s, width)

Format03d(jj) == ZeroPad(DecimalDigits(jj), 3)

\* f"{name}_{jj:03d}.{ext}"
CroppedFile(name, jj, ext) == name \o <<"_">> \o Format03d(jj) \o <<".">> \o ext

\* name + "_clova.json" and name + ".json"
ClovaJsonFile(name) == name \o <<"_", "c", "l", "o", "v", "a", ".", "j", "s", "o", "n">>
LabelMeJsonFile(name) == name \o <<".", "j", "s", "o", "n">>

\* ------------------------------------------------------- pure functions
\* min(...) and max(...) over a non-empty sequence of numbers, left to right
RECURSIVE MinFrom(_, _)
MinFrom(best, s) ==
  IF s = <<>> THEN best
  ELSE MinFrom(IF Head(s) < best THEN Head(s) ELSE best, Tail(s))

RECURSIVE MaxFrom(_, _)
MaxFrom(best, s) ==
  IF s = <<>> THEN best
  ELSE MaxFrom(IF Head(s) > best THEN Head(s) ELSE best, Tail(s))

Xs(points) == [i \in 1..Len(points) |-> points[i].x]
Ys(points) == [i \in 1..Len(points) |-> points[i].y]

\* Mutant of get_bbox: the corners are read off the first and the last point
\* instead of the minimum and the maximum over all points.
get_bbox_corners(points) ==
  <<points[1].x, points[1].y, points[Len(points)].x, points[Len(points)].y>>

\* get_bbox(points) for a non-empty list; on an empty list min() raises
\* ValueError, which the callers model as their own step.
get_bbox(points) ==
  LET left == MinFrom(Head(Xs(points)), Tail(Xs(points)))
      upper == MinFrom(Head(Ys(points)), Tail(Ys(points)))
      right == MaxFrom(Head(Xs(points)), Tail(Xs(points)))
      lower == MaxFrom(Head(Ys(points)), Tail(Ys(points)))
  IN  <<left, upper, right, lower>>

\* Mutant of valid_crop_size: only the width is compared.
valid_crop_size_width_only(bbox, size) ==
  IF bbox[3] - bbox[1] < size THEN FALSE ELSE TRUE

\* valid_crop_size(bbox, size); bbox[0..3] of the code is bbox[1..4] here
valid_crop_size(bbox, size) ==
  IF bbox[3] - bbox[1] < size \/ bbox[4] - bbox[2] < size THEN FALSE ELSE TRUE

\* file.startswith(".")
StartsWithDot(file) == file # <<>> /\ Head(file) = "."

RECURSIVE FilterListing(_)
FilterListing(entries) ==
  IF entries = <<>> THEN <<>>
  ELSE IF StartsWithDot(Head(entries)) \/ Head(entries) = <<>>
       THEN FilterListing(Tail(entries))
       ELSE <<Head(entries)>> \o FilterListing(Tail(entries))

\* Mutant of get_files: file_list.sort() is left out.
get_files_unsorted(entries) == FilterListing(entries)

\* get_files(path) with except_file = "": the first component of the result
get_files(entries) == SortList(FilterListing(entries))

\* ------------------------------------------------------------- the inputs
\* Directory entries: three images, a dotfile, a name without extension.
FileA == <<"a", ".", "p">>
FileAa == <<"a", "a", ".", "p">>
FileB == <<"b", ".", "p">>
DotFile == <<".", "h">>
NoExtFile == <<"a", "b">>
FilePool == {FileA, FileAa, FileB, DotFile, NoExtFile}

Pt(px, py) == [x |-> px, y |-> py]

\* Fields of a recognition result.
FieldAbcd ==
  [inferText |-> "abcd",
   boundingPoly |-> [vertices |-> <<Pt(30, 40), Pt(0, 0), Pt(30, 0), Pt(0, 40), Pt(0, 0)>>]]
FieldXx ==
  [inferText |-> "xx",
   boundingPoly |-> [vertices |-> <<Pt(0, 0), Pt(5, 0), Pt(5, 5), Pt(0, 5)>>]]
FieldFlat ==
  [inferText |-> "flat",
   boundingPoly |-> [vertices |-> <<Pt(10, 10), Pt(26, 10), Pt(26, 25), Pt(10, 25)>>]]
FieldNoVertices ==
  [inferText |-> "e", boundingPoly |-> [vertices |-> <<>>]]
FieldNoText ==
  [boundingPoly |-> [vertices |-> <<Pt(0, 0), Pt(30, 40)>>]]
FieldPool == {FieldAbcd, FieldXx, FieldFlat, FieldNoVertices, FieldNoText}

\* The JSON bodies the recognition service may answer with at most n fields:
\* one that lacks images[0].fields ("MissingFields") or one that carries a
\* list of fields ("ok").
Responses(n) ==
  {[status |-> "MissingFields", fields |-> <<>>]}
  \cup {[status |-> "ok", fields |-> fs] : fs \in SeqsUpTo(FieldPool, n)}

\* args.min_image_size: the default and the next smaller one
MinSizes == {DefaultMinImageSize, 15}

\* The input directories: at most MaxFiles entries
Directories == {d \in SUBSET FilePool : Cardinality(d) <= MaxFiles}

\* os.listdir(path): the entries of the directory in any order
listdir(d) ==
  {l \in [1..Cardinality(d) -> d] : \A i, j \in 1..Cardinality(d) : i # j => l[i] # l[j]}

\* Polygons for get_bbox alone
GridPoints == {Pt(px, py) : px \in 0..MaxCoord, py \in 0..MaxCoord}
Polygons == SeqsUpTo(GridPoints, MaxPts)

\* ------------------------------------------------------------------ state
VARIABLES
  inputExists,   \* os.path.exists(args.input_path)
  inputDir,      \* the entries of args.input_path
  minSize,       \* args.min_image_size
  outKind,       \* args.output_path: "absent", "dir" or "file"
  outDirs,       \* directories created by create_working_directory
  pc,            \* position in run()
  error,         \* how run() ended abnormally, "none" otherwise
  files,         \* files of run()
  ii,            \* files completed so far (index of the current file, from 0)
  jj,            \* index of the current field, from 0
  json_data,     \* the response loaded from the clova json file
  shapes,        \* shapes of run()
  points,        \* argument of the last get_bbox call
  bbox,          \* result of the last get_bbox call
  labelsOpen,    \* the label file object is open
  openCount,     \* open() calls on labels.txt
  labelsBuf,     \* lines written and still in the file object's buffer
  labelsDisk,    \* lines of cropped/labels.txt
  crops,         \* file names saved to cropped/, in order
  requests,      \* file names posted to the recognition service, in order
  recognized,    \* files written to recognized/, in order: [file, body]
  copies,        \* file names copied to converted/, in order
  docs           \* documents written to converted/, in order

vars ==
  <<inputExists, inputDir, minSize, outKind, outDirs, pc, error, files,
    ii, jj, json_data, shapes, points, bbox, labelsOpen, openCount, labelsBuf,
    labelsDisk, crops, requests, recognized, copies, docs>>

inputs == <<inputExists, inputDir, minSize>>
locals == <<files, ii, jj, json_data, shapes, points, bbox>>
labelFile == <<labelsOpen, openCount, labelsBuf, labelsDisk>>
outputs == <<outDirs, crops, requests, recognized, copies, docs>>

NoResponse == [status |-> "none", fields |-> <<>>]

InitRun ==
  /\ outDirs = {}
  /\ pc = "start"
  /\ error = "none"
  /\ files = <<>>
  /\ ii = 0
  /\ jj = 0
  /\ json_data = NoResponse
  /\ shapes = <<>>
  /\ points = <<>>
  /\ bbox = <<>>
  /\ labelsOpen = FALSE
  /\ openCount = 0
  /\ labelsBuf = <<>>
  /\ labelsDisk = <<>>
  /\ crops = <<>>
  /\ requests = <<>>
  /\ recognized = <<>>
  /\ copies = <<>>
  /\ docs = <<>>

Init ==
  /\ inputExists \in BOOLEAN
  /\ inputDir \in (IF inputExists THEN Directories ELSE {{}})
  /\ minSize \in MinSizes
  /\ outKind \in {"absent", "dir", "file"}
  /\ InitRun

\* ---------------------------------------------------------------- run()
CurFile == files[ii + 1]
CurName == SplitDot(CurFile)[1]
CurExt == SplitDot(CurFile)[2]
CurFields == json_data.fields
CurField == CurFields[jj + 1]

\* Fields the recognition service has returned so far in this run
RECURSIVE CountFields(_)
CountFields(rs) ==
  IF rs = <<>> THEN 0 ELSE Len(Head(rs).body.fields) + CountFields(Tail(rs))

FieldsSoFar == CountFields(recognized)

Ended == pc \in {"done", "exited", "raised"}

\* line 84-85: the input path does not exist, sys.exit
SetupInputMissing ==
  /\ pc = "start"
  /\ ~inputExists
  /\ pc' = "exited"
  /\ error' = "InputNotFound"
  /\ UNCHANGED <<inputs, outKind, locals, labelFile, outputs>>

\* Mutant of SetupOutputExists: the message is printed (line 89) and the run
\* goes on into the existing output tree.
SetupOutputExistsGoesOn ==
  /\ pc = "start"
  /\ inputExists
  /\ outKind = "dir"
  /\ outDirs' = {"root", "recognized", "cropped", "converted"}
  /\ pc' = "created"
  /\ UNCHANGED <<inputs, outKind, error, locals, labelFile, crops, requests,
                 recognized, copies, docs>>

\* line 87-88: the output path is a directory, sys.exit
SetupOutputExists ==
  /\ pc = "start"
  /\ inputExists
  /\ outKind = "dir"
  /\ pc' = "exited"
  /\ error' = "OutputAlreadyExists"
  /\ UNCHANGED <<inputs, outKind, locals, labelFile, outputs>>

\* line 92, 231: the output path is a file, os.makedirs(root) raises
SetupMakedirsFails ==
  /\ pc = "start"
  /\ inputExists
  /\ outKind = "file"
  /\ pc' = "raised"
  /\ error' = "FileExistsError"
  /\ UNCHANGED <<inputs, outKind, locals, labelFile, outputs>>

\* line 92: create_working_directory(root, ["recognized", "cropped", "converted"])
create_working_directory ==
  /\ pc = "start"
  /\ inputExists
  /\ outKind = "absent"
  /\ outKind' = "dir"
  /\ outDirs' = {"root", "recognized", "cropped", "converted"}
  /\ pc' = "created"
  /\ UNCHANGED <<inputs, error, locals, labelFile, crops, requests, recognized,
                 copies, docs>>

\* line 94: files, count = get_files(args.input_path)
GetFiles ==
  /\ pc = "created"
  /\ \E entries \in listdir(inputDir) : files' = get_files(entries)
  /\ pc' = "listed"
  /\ UNCHANGED <<inputs, outKind, error, ii, jj, json_data, shapes, points, bbox,
                 labelFile, outputs>>

\* line 96: labels = open(.../labels.txt, "w")
OpenLabels ==
  /\ pc = "listed"
  /\ labelsOpen' = TRUE
  /\ openCount' = openCount + 1
  /\ labelsBuf' = <<>>
  /\ labelsDisk' = <<>>
  /\ pc' = "loop"
  /\ UNCHANGED <<inputs, outKind, error, locals, outputs>>

\* line 104: name, ext = file_name.split('.') raises ValueError
FileSplitFails ==
  /\ pc = "loop"
  /\ ii < Len(files)
  /\ Len(SplitDot(CurFile)) # 2
  /\ pc' = "raised"
  /\ error' = "FilenameFormat"
  /\ UNCHANGED <<inputs, outKind, locals, labelFile, outputs>>

\* Mutant of RecognizeFails: the failure is caught and the loop goes on with
\* the next file.
RecognizeFailsGoesOn ==
  /\ pc = "loop"
  /\ ii < Len(files)
  /\ Len(SplitDot(CurFile)) = 2
  /\ requests' = Append(requests, CurFile)
  /\ ii' = ii + 1
  /\ UNCHANGED <<inputs, outKind, pc, error, files, jj, json_data, shapes, points,
                 bbox, labelFile, outDirs, crops, recognized, copies, docs>>

\* line 106, 182-184: the request or json.loads of its body raises
RecognizeFails ==
  /\ pc = "loop"
  /\ ii < Len(files)
  /\ Len(SplitDot(CurFile)) = 2
  /\ requests' = Append(requests, CurFile)
  /\ pc' = "raised"
  /\ error' = "RecognitionError"
  /\ UNCHANGED <<inputs, outKind, locals, labelFile, outDirs, crops, recognized,
                 copies, docs>>

\* Mutant of RecognizeOk: shapes = [] is done once before the loop, not per file.
RecognizeOkKeepsShapes ==
  /\ pc = "loop"
  /\ ii < Len(files)
  /\ Len(SplitDot(CurFile)) = 2
  /\ requests' = Append(requests, CurFile)
  /\ \E res \in Responses(MaxFields - FieldsSoFar) :
       /\ recognized' = Append(recognized, [file |-> ClovaJsonFile(CurName), body |-> res])
       /\ json_data' = res
  /\ jj' = 0
  /\ pc' = "fields"
  /\ UNCHANGED <<inputs, outKind, error, files, ii, shapes, points, bbox, labelFile,
                 outDirs, crops, copies, docs>>

\* line 106-120: the response is saved and loaded, shapes = [], the image opens
RecognizeOk ==
  /\ pc = "loop"
  /\ ii < Len(files)
  /\ Len(SplitDot(CurFile)) = 2
  /\ requests' = Append(requests, CurFile)
  /\ \E res \in Responses(MaxFields - FieldsSoFar) :
       /\ recognized' = Append(recognized, [file |-> ClovaJsonFile(CurName), body |-> res])
       /\ json_data' = res
  /\ shapes' = <<>>
  /\ jj' = 0
  /\ pc' = "fields"
  /\ UNCHANGED <<inputs, outKind, error, files, ii, points, bbox, labelFile,
                 outDirs, crops, copies, docs>>

\* line 121: json_data["images"][0]["fields"] raises KeyError
FieldsMissing ==
  /\ pc = "fields"
  /\ json_data.status = "MissingFields"
  /\ pc' = "raised"
  /\ error' = "MissingFields"
  /\ UNCHANGED <<inputs, outKind, locals, labelFile, outputs>>

\* line 122: fields["inferText"] raises KeyError
FieldKeyMissing ==
  /\ pc = "fields"
  /\ json_data.status = "ok"
  /\ jj < Len(CurFields)
  /\ "inferText" \notin DOMAIN CurField
  /\ pc' = "raised"
  /\ error' = "MissingFields"
  /\ UNCHANGED <<inputs, outKind, locals, labelFile, outputs>>

\* line 123, 196: get_bbox([]) raises ValueError (min of an empty sequence)
FieldEmptyPolygon ==
  /\ pc = "fields"
  /\ json_data.status = "ok"
  /\ jj < Len(CurFields)
  /\ "inferText" \in DOMAIN CurField
  /\ CurField.boundingPoly.vertices = <<>>
  /\ points' = <<>>
  /\ pc' = "raised"
  /\ error' = "EmptyPolygon"
  /\ UNCHANGED <<inputs, outKind, files, ii, jj, json_data, shapes, bbox,
                 labelFile, outputs>>

\* line 122-127: the box is too small, continue
FieldRejected ==
  /\ pc = "fields"
  /\ json_data.status = "ok"
  /\ jj < Len(CurFields)
  /\ "inferText" \in DOMAIN CurField
  /\ CurField.boundingPoly.vertices # <<>>
  /\ points' = CurField.boundingPoly.vertices
  /\ bbox' = get_bbox(points')
  /\ ~valid_crop_size(bbox', minSize)
  /\ jj' = jj + 1
  /\ UNCHANGED <<inputs, outKind, pc, error, files, ii, json_data, shapes,
                 labelFile, outputs>>

Shape(label, box) ==
  [label |-> label,
   points |-> << <<box[1], box[2]>>, <<box[3], box[4]>> >>,
   group_id |-> "None",
   shape_type |-> "rectangle"]

\* Mutant of FieldAccepted: the crop is numbered by the count of accepted
\* fields so far instead of the field's index jj.
FieldAcceptedNumberedByShapes ==
  /\ pc = "fields"
  /\ json_data.status = "ok"
  /\ jj < Len(CurFields)
  /\ "inferText" \in DOMAIN CurField
  /\ CurField.boundingPoly.vertices # <<>>
  /\ points' = CurField.boundingPoly.vertices
  /\ bbox' = get_bbox(points')
  /\ valid_crop_size(bbox', minSize)
  /\ LET cropped_file == CroppedFile(CurName, Len(shapes), CurExt)
         line == <<cropped_file, CurField.inferText>>
     IN  /\ crops' = Append(crops, cropped_file)
         /\ \E spill \in BOOLEAN :
              IF spill
              THEN /\ labelsDisk' = labelsDisk \o Append(labelsBuf, line)
                   /\ labelsBuf' = <<>>
              ELSE /\ labelsBuf' = Append(labelsBuf, line)
                   /\ labelsDisk' = labelsDisk
  /\ shapes' = Append(shapes, Shape(CurField.inferText, bbox'))
  /\ jj' = jj + 1
  /\ UNCHANGED <<inputs, outKind, pc, error, files, ii, json_data, labelsOpen,
                 openCount, outDirs, requests, recognized, copies, docs>>

\* line 122-141: the crop is saved, its label line written, its shape appended.
\* The write stays in the file object's buffer or makes it spill to the file.
FieldAccepted ==
  /\ pc = "fields"
  /\ json_data.status = "ok"
  /\ jj < Len(CurFields)
  /\ "inferText" \in DOMAIN CurField
  /\ CurField.boundingPoly.vertices # <<>>
  /\ points' = CurField.boundingPoly.vertices
  /\ bbox' = get_bbox(points')
  /\ valid_crop_size(bbox', minSize)
  /\ LET cropped_file == CroppedFile(CurName, jj, CurExt)
         line == <<cropped_file, CurField.inferText>>
     IN  /\ crops' = Append(crops, cropped_file)
         /\ \E spill \in BOOLEAN :
              IF spill
              THEN /\ labelsDisk' = labelsDisk \o Append(labelsBuf, line)
                   /\ labelsBuf' = <<>>
              ELSE /\ labelsBuf' = Append(labelsBuf, line)
                   /\ labelsDisk' = labelsDisk
  /\ shapes' = Append(shapes, Shape(CurField.inferText, bbox'))
  /\ jj' = jj + 1
  /\ UNCHANGED <<inputs, outKind, pc, error, files, ii, json_data, labelsOpen,
                 openCount, outDirs, requests, recognized, copies, docs>>

\* line 143-152: the image is copied and its document written
FinalizeImage ==
  /\ pc = "fields"
  /\ json_data.status = "ok"
  /\ jj = Len(CurFields)
  /\ copies' = Append(copies, CurFile)
  /\ docs' = Append(docs, [file |-> LabelMeJsonFile(CurName),
                           imagePath |-> CurFile,
                           shapes |-> shapes])
  /\ ii' = ii + 1
  /\ pc' = "loop"
  /\ UNCHANGED <<inputs, outKind, error, files, jj, json_data, shapes, points,
                 bbox, labelFile, outDirs, crops, requests, recognized>>

\* line 154: labels.close()
CloseLabels ==
  /\ pc = "loop"
  /\ ii = Len(files)
  /\ labelsDisk' = labelsDisk \o labelsBuf
  /\ labelsBuf' = <<>>
  /\ labelsOpen' = FALSE
  /\ pc' = "done"
  /\ UNCHANGED <<inputs, outKind, error, locals, openCount, outputs>>

Next ==
  \/ SetupInputMissing
  \/ SetupOutputExists
  \/ SetupMakedirsFails
  \/ create_working_directory
  \/ GetFiles
  \/ OpenLabels
  \/ FileSplitFails
  \/ RecognizeFails
  \/ RecognizeOk
  \/ FieldsMissing
  \/ FieldKeyMissing
  \/ FieldEmptyPolygon
  \/ FieldRejected
  \/ FieldAccepted
  \/ FinalizeImage
  \/ CloseLabels

Spec == Init /\ [][Next]_vars

\* ------------------------------------------------ get_bbox on its own
InitBBox ==
  /\ inputExists = TRUE
  /\ inputDir = {}
  /\ minSize = DefaultMinImageSize
  /\ outKind = "absent"
  /\ outDirs = {}
  /\ pc = "bbox_call"
  /\ error = "none"
  /\ files = <<>>
  /\ ii = 0
  /\ jj = 0
  /\ json_data = NoResponse
  /\ shapes = <<>>
  /\ points \in Polygons
  /\ bbox = <<>>
  /\ labelsOpen = FALSE
  /\ openCount = 0
  /\ labelsBuf = <<>>
  /\ labelsDisk = <<>>
  /\ crops = <<>>
  /\ requests = <<>>
  /\ recognized = <<>>
  /\ copies = <<>>
  /\ docs = <<>>

\* line 195-204: get_bbox(points) returns
BBoxReturns ==
  /\ pc = "bbox_call"
  /\ points # <<>>
  /\ bbox' = get_bbox(points)
  /\ pc' = "bbox_return"
  /\ UNCHANGED <<inputs, outKind, error, files, ii, jj, json_data, shapes, points,
                 labelFile, outputs>>

\* line 196: min() of an empty sequence raises ValueError
BBoxRaises ==
  /\ pc = "bbox_call"
  /\ points = <<>>
  /\ pc' = "bbox_raise"
  /\ error' = "EmptyPolygon"
  /\ UNCHANGED <<inputs, outKind, locals, labelFile, outputs>>

NextBBox == BBoxReturns \/ BBoxRaises

SpecBBox == InitBBox /\ [][NextBBox]_vars

\* ===================================================================
\* Properties
\* ===================================================================
IsPrefix(s, t) == Len(s) <= Len(t) /\ \A i \in 1..Len(s) : s[i] = t[i]

NoDuplicates(s) == \A i, j \in 1..Len(s) : i # j => s[i] # s[j]

\* All label lines written through the file object so far
Written == labelsDisk \o labelsBuf

Reversed(s) == [i \in 1..Len(s) |-> s[Len(s) + 1 - i]]

SetMin(S) == CHOOSE m \in S : \A v \in S : m <= v
SetMax(S) == CHOOSE m \in S : \A v \in S : m >= v

\* The minimal enclosing axis-aligned rectangle of a non-empty polygon
EnclosingBox(poly) ==
  LET xs == {poly[i].x : i \in 1..Len(poly)}
      ys == {poly[i].y : i \in 1..Len(poly)}
  IN  <<SetMin(xs), SetMin(ys), SetMax(xs), SetMax(ys)>>

WellFormed(f) == "inferText" \in DOMAIN f /\ f.boundingPoly.vertices # <<>>

Width(poly) ==
  SetMax({poly[i].x : i \in 1..Len(poly)}) - SetMin({poly[i].x : i \in 1..Len(poly)})
Height(poly) ==
  SetMax({poly[i].y : i \in 1..Len(poly)}) - SetMin({poly[i].y : i \in 1..Len(poly)})

\* The accept/reject decision of the specification: the polygon spans at
\* least size in x and at least size in y
Acceptable(f, size) ==
  /\ WellFormed(f)
  /\ \E p, q \in Range(f.boundingPoly.vertices) : q.x - p.x >= size
  /\ \E p, q \in Range(f.boundingPoly.vertices) : q.y - p.y >= size

\* base name and extension of an image file name with one dot
RECURSIVE UpToDot(_)
UpToDot(s) ==
  IF s = <<>> \/ Head(s) = "." THEN <<>> ELSE <<Head(s)>> \o UpToDot(Tail(s))

AfterDot(s) == SubSeq(s, Len(UpToDot(s)) + 2, Len(s))

\* {base}_{three digit sequence number}.{ext}, for a sequence number below 1000
NumberedName(file, n) ==
  UpToDot(file)
    \o <<"_", DigitChars[((n \div 100) % 10) + 1], DigitChars[((n \div 10) % 10) + 1],
         DigitChars[(n % 10) + 1]>>
    \o <<".">> \o AfterDot(file)

\* The fields of the k-th recognized file handled so far: all of them once
\* the file is completed, those before the current one otherwise
Handled(k) == IF k <= ii THEN Len(recognized[k].body.fields) ELSE jj

\* The crop names due from the first n fields of the k-th recognized file:
\* one per accepted field, numbered by the field's position from 0
RECURSIVE CropsOfFile(_, _)
CropsOfFile(k, n) ==
  IF n = 0 THEN <<>>
  ELSE CropsOfFile(k, n - 1)
         \o (IF Acceptable(recognized[k].body.fields[n], minSize)
             THEN <<NumberedName(requests[k], n - 1)>>
             ELSE <<>>)

\* The crop names due so far from the first k recognized files
RECURSIVE ExpectedCrops(_)
ExpectedCrops(k) ==
  IF k = 0 THEN <<>> ELSE ExpectedCrops(k - 1) \o CropsOfFile(k, Handled(k))

\* The label lines due from the first n fields of the k-th recognized file
RECURSIVE LinesOfFile(_, _)
LinesOfFile(k, n) ==
  IF n = 0 THEN <<>>
  ELSE LinesOfFile(k, n - 1)
         \o (IF Acceptable(recognized[k].body.fields[n], minSize)
             THEN << <<NumberedName(requests[k], n - 1),
                       recognized[k].body.fields[n].inferText>> >>
             ELSE <<>>)

\* The label lines due so far from the first k recognized files
RECURSIVE ExpectedLines(_)
ExpectedLines(k) ==
  IF k = 0 THEN <<>> ELSE ExpectedLines(k - 1) \o LinesOfFile(k, Handled(k))

\* label and points of the shapes of a document or accumulator
LabelsAndPoints(shs) ==
  [m \in 1..Len(shs) |-> <<shs[m].label, shs[m].points>>]

\* [[left, upper], [right, lower]] of the enclosing box of a polygon
CornerPoints(poly) ==
  << <<SetMin({poly[i].x : i \in 1..Len(poly)}), SetMin({poly[i].y : i \in 1..Len(poly)})>>,
     <<SetMax({poly[i].x : i \in 1..Len(poly)}), SetMax({poly[i].y : i \in 1..Len(poly)})>> >>

\* label and points due from the first n fields of the k-th recognized file
RECURSIVE ExpectedShapes(_, _)
ExpectedShapes(k, n) ==
  IF n = 0 THEN <<>>
  ELSE ExpectedShapes(k, n - 1)
         \o (IF Acceptable(recognized[k].body.fields[n], minSize)
             THEN << <<recognized[k].body.fields[n].inferText,
                       CornerPoints(recognized[k].body.fields[n].boundingPoly.vertices)>> >>
             ELSE <<>>)

RECURSIVE TotalShapes(_)
TotalShapes(ds) ==
  IF ds = <<>> THEN 0 ELSE Len(Head(ds).shapes) + TotalShapes(Tail(ds))

\* The input files in processing order: the entries that are no dotfiles,
\* ascending by code point (the i-th one has i - 1 entries below it)
SortedInputs ==
  LET visible == {f \in inputDir : Head(f) # "."}
  IN  [i \in 1..Cardinality(visible) |->
        CHOOSE f \in visible : Cardinality({g \in visible : LexLess(g, f)}) = i - 1]

\* -------------------------------------------------------------------
\* C1: whenever the run has ended, normally or by an abort, the number of
\* lines written to labels.txt equals the number of shapes over all the
\* documents written to converted/.
C1_LinesEqualShapes == Ended => Len(Written) = TotalShapes(docs)

\* -------------------------------------------------------------------
\* C4: the label file is opened once, and whenever the run has ended after
\* opening it, normally or by an abort, the label file is closed.
C4_LabelFileClosedAtEnd ==
  (Ended /\ openCount > 0) => (openCount = 1 /\ ~labelsOpen)

\* -------------------------------------------------------------------
AtEmptyPolygonField ==
  /\ pc = "fields"
  /\ json_data.status = "ok"
  /\ jj < Len(CurFields)
  /\ "inferText" \in DOMAIN CurField
  /\ CurField.boundingPoly.vertices = <<>>

\* C6: a field with an empty vertex list is skipped: no crop, no label
\* line, no shape, and the run goes on with the next field of the image.
C6_EmptyPolygonSkipped ==
  [][AtEmptyPolygonField =>
       /\ pc' = "fields"
       /\ jj' = jj + 1
       /\ UNCHANGED <<ii, crops, labelsBuf, labelsDisk, shapes, docs>>]_vars

\* -------------------------------------------------------------------
\* C7: for a polygon with at least one point get_bbox returns
\* [left, upper, right, lower] with left and upper the minimum x and y over
\* the set of its points and right and lower the maximum x and y, whatever
\* the order of the points and however often a point occurs; so
\* left <= right and upper <= lower.
C7_BBoxIsMinMax ==
  pc = "bbox_return" =>
    /\ bbox = EnclosingBox(points)
    /\ bbox[1] <= bbox[3]
    /\ bbox[2] <= bbox[4]
    /\ get_bbox(Reversed(points)) = bbox
    /\ get_bbox(points \o points) = bbox

C7_Witness ==
  /\ pc = "bbox_return"
  /\ points = <<Pt(2, 0), Pt(0, 1), Pt(2, 0)>>
  /\ bbox = <<0, 0, 2, 1>>

\* -------------------------------------------------------------------
\* C8: one accept/reject decision drives the three outputs of a field: a
\* field with a bounding box yields a crop, a label line and a shape with
\* points [[left, upper], [right, lower]] exactly when the width and the
\* height of its box are both at least minSize, and none of them otherwise.
C8_OneDecisionThreeOutputs ==
  [][(pc = "fields" /\ json_data.status = "ok" /\ jj < Len(CurFields)
        /\ WellFormed(CurField)) =>
       LET f == CurField
       IN  IF /\ Width(f.boundingPoly.vertices) >= minSize
              /\ Height(f.boundingPoly.vertices) >= minSize
           THEN /\ Len(crops') = Len(crops) + 1
                /\ IsPrefix(crops, crops')
                /\ Written' = Append(Written, <<crops'[Len(crops')], f.inferText>>)
                /\ Len(shapes') = Len(shapes) + 1
                /\ IsPrefix(shapes, shapes')
                /\ shapes'[Len(shapes')].label = f.inferText
                /\ shapes'[Len(shapes')].points = CornerPoints(f.boundingPoly.vertices)
           ELSE UNCHANGED <<crops, labelsBuf, labelsDisk, shapes>>]_vars

\* The example of the specification: with minSize 16 the 30x40 field "abcd"
\* and the 5x5 field "xx" of one image have both been handled.
C8_Witness ==
  /\ minSize = 16
  /\ pc = "fields"
  /\ CurFields = <<FieldAbcd, FieldXx>>
  /\ jj = 2
  /\ Len(crops) = 1
  /\ Written = << <<crops[1], "abcd">> >>
  /\ LabelsAndPoints(shapes) = << <<"abcd", << <<0, 0>>, <<30, 40>> >> >> >>

C9_LabelsInProcessingOrder ==
  LET due == ExpectedLines(Len(recognized))
  IN  /\ IsPrefix(requests, SortedInputs)
      /\ Written = due
      /\ IsPrefix(labelsDisk, due)

C9_Witness ==
  /\ {FileA, FileB, DotFile} = inputDir
  /\ labelsDisk = << <<NumberedName(FileA, 0), "abcd">> >>
  /\ labelsBuf = << <<NumberedName(FileB, 1), "abcd">> >>

\* -------------------------------------------------------------------
\* C10: every input file whose processing completed has one document,
\* written after all its fields were handled, whose shapes are the accepted
\* fields of that image in field order; the accumulator starts empty for
\* each image, and an image without accepted field gets a document with an
\* empty shape list.
C10_OneDocumentPerImage ==
  /\ Len(docs) = ii
  /\ ii <= Len(recognized)
  /\ pc = "fields" =>
       /\ Len(recognized) = ii + 1
       /\ LabelsAndPoints(shapes) = ExpectedShapes(ii + 1, jj)
  /\ \A k \in 1..Len(docs) :
       /\ docs[k].imagePath = requests[k]
       /\ docs[k].file = UpToDot(requests[k]) \o <<".", "j", "s", "o", "n">>
       /\ LabelsAndPoints(docs[k].shapes)
            = ExpectedShapes(k, Len(recognized[k].body.fields))

C10_Witness ==
  /\ Len(docs) = 2
  /\ Len(docs[1].shapes) = 1
  /\ recognized[2].body.fields = <<FieldXx>>
  /\ docs[2].shapes = <<>>
  /\ minSize = 16

\* -------------------------------------------------------------------
SetupError ==
  IF ~inputExists THEN "InputNotFound"
  ELSE IF outKind = "dir" THEN "OutputAlreadyExists"
  ELSE "FileExistsError"

\* C3: when the input path does not exist or the output path exists, run()
\* ends at once with the error of that case, and no directory is created,
\* the label file is not opened, nothing is sent for recognition and nothing
\* is written, then or later.
C3_SetupFailureWritesNothing ==
  [][/\ (pc = "start" /\ (~inputExists \/ outKind # "absent")) =>
          /\ pc' \in {"exited", "raised"}
          /\ error' = SetupError
          /\ UNCHANGED <<outKind, labelFile, outputs>>
     /\ error \in {"InputNotFound", "OutputAlreadyExists", "FileExistsError"} =>
          UNCHANGED <<outKind, labelFile, outputs>>]_vars

C3_Witness ==
  /\ pc = "exited"
  /\ error = "OutputAlreadyExists"
  /\ outKind = "dir"
  /\ inputDir # {}
  /\ outDirs = {}
  /\ openCount = 0
  /\ requests = <<>>

\* -------------------------------------------------------------------
FailedRequest(k) ==
  \/ k > Len(recognized)
  \/ recognized[k].body.status = "MissingFields"
  \/ \E m \in 1..Len(recognized[k].body.fields) :
       "inferText" \notin DOMAIN recognized[k].body.fields[m]

AbortsAtFailedFile ==
  /\ \A k \in 1..Len(requests) :
       FailedRequest(k) =>
         /\ k = Len(requests)
         /\ pc \in {"fields", "raised"}
         /\ Len(docs) < k
         /\ Len(copies) < k
  /\ Len(requests) > Len(recognized) => pc = "raised"

\* C5: when the recognition of a file fails (the request fails, or the
\* response lacks the expected fields) the batch aborts at that file: it is
\* the last file sent for recognition, no document and no copy is written
\* for it or a later file, and what was written before stays as it is.
C5_RecognitionFailureAborts ==
  [][/\ AbortsAtFailedFile'
     /\ IsPrefix(crops, crops')
     /\ IsPrefix(Written, Written')
     /\ IsPrefix(labelsDisk, labelsDisk')
     /\ IsPrefix(docs, docs')
     /\ IsPrefix(copies, copies')
     /\ IsPrefix(recognized, recognized')
     /\ pc = "raised" => UNCHANGED vars]_vars

\* The first file was converted, the request for the second one failed, a
\* third one is left.
C5_Witness ==
  /\ pc = "raised"
  /\ error = "RecognitionError"
  /\ Len(files) = 3
  /\ Len(requests) = 2
  /\ Len(docs) = 1
  /\ crops # <<>>
====
